---- MODULE Spec2Model ----
(***************************************************************************)
(* Model of feature_interpretability_CICIDS.py: a linear batch pipeline    *)
(* load -> select features -> clean -> sample -> five per-feature metric   *)
(* estimators -> merge -> normalise -> score -> group lookup -> sort.      *)
(*                                                                         *)
(* Numbers.  A float is a record [k, v]: k = "num" with an integer v,      *)
(* k = "nan", or k = "inf" with v = 1 or -1.  Cells of the input table are *)
(* whole numbers; metric values are held in fixed point, in units of       *)
(* 1/Scale, with divisions and square roots rounded down.                  *)
(*                                                                         *)
(* Library estimators (random forest, mutual information, PCA) are not     *)
(* part of the script: each is a choice among non-negative finite result   *)
(* vectors.  scipy's spearmanr and pandas' std / max / sort_values / merge *)
(* are modelled by what they return on the script's inputs.                *)
(***************************************************************************)
EXTENDS Integers, Sequences, FiniteSets, TLC

\* ---------------------------------------------------------------- bounds
\* Largest number of rows of the input table.
MaxRows == 3
\* Stands for the cap 50000 of line 63, scaled down so that tables both
\* below and above the cap occur.
SampleCap == 2
\* Fixed-point resolution of metric values: 1.0 is Scale.
Scale == 100
\* Largest sample drawn directly for the separability step (SpecSep).
MaxSepRows == 4
\* Largest feature value of a sample drawn directly (SpecSep).
MaxSepVal == 2
\* Largest number of groups of a catalog drawn directly (SpecGroup).
MaxGroups == 3

\* ---------------------------------------------------------------- floats
NaN == [k |-> "nan", v |-> 0]
PosInf == [k |-> "inf", v |-> 1]
NegInf == [k |-> "inf", v |-> -1]
Num(n) == [k |-> "num", v |-> n]
IsNaN(x) == x.k = "nan"
IsFinite(x) == x.k = "num"

\* x > 0 as numpy evaluates it: False for NaN.
GtZero(x) == \/ x.k = "num" /\ x.v > 0
             \/ x.k = "inf" /\ x.v > 0

\* abs(x): abs(nan) is nan.
FAbs(x) == IF x.k = "num" THEN Num(IF x.v < 0 THEN -x.v ELSE x.v)
           ELSE IF x.k = "inf" THEN PosInf ELSE NaN

\* x / m for fixed-point x and a fixed-point m > 0: NaN propagates.
FDiv(x, m) == IF x.k = "num" /\ m.k = "num" THEN Num((x.v * Scale) \div m.v)
              ELSE NaN

\* w1*x1 + ... for integer weights in hundredths: NaN in any term gives NaN.
RECURSIVE WeightedSum(_, _)
WeightedSum(ws, xs) ==
  IF ws = <<>> THEN 0
  ELSE Head(ws) * Head(xs).v + WeightedSum(Tail(ws), Tail(xs))

Weighted(ws, xs) ==
  IF \E i \in 1..Len(xs) : ~IsFinite(xs[i]) THEN NaN
  ELSE Num(WeightedSum(ws, xs) \div 100)

\* floor(sqrt(n)) by bisection on [lo, hi].
RECURSIVE IsqrtIn(_, _, _)
IsqrtIn(n, lo, hi) ==
  IF lo >= hi THEN lo
  ELSE LET mid == (lo + hi + 1) \div 2
       IN IF mid * mid <= n THEN IsqrtIn(n, mid, hi) ELSE IsqrtIn(n, lo, mid - 1)

Isqrt(n) == IsqrtIn(n, 0, IF n < 46340 THEN n ELSE 46340)

Min(a, b) == IF a < b THEN a ELSE b

RECURSIVE SumSeq(_)
SumSeq(s) == IF s = <<>> THEN 0 ELSE Head(s) + SumSeq(Tail(s))

RECURSIVE Flatten(_)
Flatten(ss) == IF ss = <<>> THEN <<>> ELSE Head(ss) \o Flatten(Tail(ss))

Range(s) == {s[i] : i \in 1..Len(s)}

Permutations1(n) == {p \in [1..n -> 1..n] : \A i, j \in 1..n : i # j => p[i] # p[j]}

\* ---------------------------------------------------------------- catalog
FEATURE_GROUPS ==
  << [name |-> "Flow Duration",
      features |-> << "Flow Duration", "Flow IAT Mean", "Flow IAT Std", "Flow IAT Max",
                      "Flow IAT Min" >>],
     [name |-> "Forward Packets",
      features |-> << "Total Fwd Packets", "Fwd Packet Length Max", "Fwd Packet Length Min",
                      "Fwd Packet Length Mean", "Fwd Packet Length Std" >>],
     [name |-> "Backward Packets",
      features |-> << "Total Backward Packets", "Bwd Packet Length Max",
                      "Bwd Packet Length Min", "Bwd Packet Length Mean",
                      "Bwd Packet Length Std" >>],
     [name |-> "Flow Rates",
      features |-> << "Flow Bytes/s", "Flow Packets/s", "Fwd Packets/s", "Bwd Packets/s" >>],
     [name |-> "Packet Timing",
      features |-> << "Fwd IAT Total", "Fwd IAT Mean", "Fwd IAT Std", "Fwd IAT Max",
                      "Fwd IAT Min", "Bwd IAT Total", "Bwd IAT Mean", "Bwd IAT Std",
                      "Bwd IAT Max", "Bwd IAT Min" >>],
     [name |-> "TCP Flags",
      features |-> << "FIN Flag Count", "SYN Flag Count", "RST Flag Count", "PSH Flag Count",
                      "ACK Flag Count", "URG Flag Count", "CWE Flag Count", "ECE Flag Count",
                      "Fwd PSH Flags", "Bwd PSH Flags", "Fwd URG Flags", "Bwd URG Flags" >>],
     [name |-> "Header Info",
      features |-> << "Fwd Header Length", "Bwd Header Length" >>],
     [name |-> "Packet Size",
      features |-> << "Min Packet Length", "Max Packet Length", "Packet Length Mean",
                      "Packet Length Std", "Packet Length Variance", "Average Packet Size" >>],
     [name |-> "Bulk Transfer",
      features |-> << "Fwd Avg Bytes/Bulk", "Fwd Avg Packets/Bulk", "Fwd Avg Bulk Rate",
                      "Bwd Avg Bytes/Bulk", "Bwd Avg Packets/Bulk", "Bwd Avg Bulk Rate" >>],
     [name |-> "Subflow",
      features |-> << "Subflow Fwd Packets", "Subflow Fwd Bytes", "Subflow Bwd Packets",
                      "Subflow Bwd Bytes" >>],
     [name |-> "Window Size",
      features |-> << "Init_Win_bytes_forward", "Init_Win_bytes_backward", "act_data_pkt_fwd",
                      "min_seg_size_forward" >>],
     [name |-> "Active/Idle",
      features |-> << "Active Mean", "Active Std", "Active Max", "Active Min", "Idle Mean",
                      "Idle Std", "Idle Max", "Idle Min" >>],
     [name |-> "Ratios",
      features |-> << "Down/Up Ratio" >>],
     [name |-> "Engineered - Traffic Volume",
      features |-> << "packets_total", "bytes_total", "avg_packet_size" >>],
     [name |-> "Engineered - Asymmetry",
      features |-> << "packet_ratio", "byte_ratio", "is_asymmetric" >>],
     [name |-> "Engineered - Connection State",
      features |-> << "connection_completed", "connection_failed" >>],
     [name |-> "Engineered - Network Quality",
      features |-> << "avg_jitter", "high_jitter" >>],
     [name |-> "Engineered - TCP",
      features |-> << "has_tcp_info", "window_size_avg" >>],
     [name |-> "Engineered - Scanning",
      features |-> << "diverse_ports", "diverse_src_ports", "repeated_connection" >>],
     [name |-> "Engineered - Response",
      features |-> << "response_body_len", "has_response" >>] >>

\* ---------------------------------------------------------------- state
VARIABLES
  pc,                 \* position in the script
  catalog,            \* which FEATURE_GROUPS is in force (see CatalogGroups)
  columns,            \* CICIDS_2017.columns, in file order
  table,              \* CICIDS_2017: rows [cells, is_attack], cells by column
  available_features, \* catalog features that are columns of the table
  X, y,               \* cleaned feature matrix and label vector
  sample_idx,         \* row positions drawn by np.random.choice (0-based)
  X_sample, y_sample, \* the sample every estimator reads
  feature_importance, mutual_info, correlation_df, separability_df,
  reconstruction_df,  \* the five per-feature tables
  metrics_combined    \* the merged table, then the report table

vars == <<pc, catalog, columns, table, available_features, X, y, sample_idx,
          X_sample, y_sample, feature_importance, mutual_info, correlation_df,
          separability_df, reconstruction_df, metrics_combined>>

\* The catalog the script reads.  The script's own FEATURE_GROUPS is a literal
\* that never changes, so a state only records that it is in force
\* (source = "script"); a state of the group lookup taken alone carries the
\* catalog it is given (source = "given").
CatalogGroups ==
  IF catalog.source = "script" THEN FEATURE_GROUPS ELSE catalog.groups

\* ---------------------------------------------------------------- inputs
\* Column headers of input files: some catalog features, in an order that is
\* not the catalog's, and a column the catalog does not list.
Headers ==
  { << "SYN Flag Count", "Source Port", "Flow Duration" >>,
    << "packets_total", "Destination Port", "Protocol" >> }

\* Rows of input files: one cell per column, and the label is_attack.
RowSet ==
  { [cells |-> << NegInf, Num(7), NaN >>, is_attack |-> 0],
    [cells |-> << Num(-2), NaN, PosInf >>, is_attack |-> 1],
    [cells |-> << Num(5), Num(7), Num(3) >>, is_attack |-> 0] }

Tables == UNION {[1..n -> RowSet] : n \in 1..MaxRows}

\* ---------------------------------------------------------------- lines 52-56
all_numeric_features(groups) ==
  Flatten([g \in 1..Len(groups) |-> groups[g].features])

InColumns(cols, f) == f \in Range(cols)

AvailableFeatures(groups, cols) ==
  LET Present(f) == InColumns(cols, f)
  IN SelectSeq(all_numeric_features(groups), Present)

\* ---------------------------------------------------------------- lines 60-61
ColumnOf(cols, f) == CHOOSE c \in 1..Len(cols) : cols[c] = f

\* fillna(0) alone: infinite entries are left in place.
CleanCell_FillnaOnly(x) == IF x.k = "nan" THEN Num(0) ELSE x

\* fillna(0).replace([inf, -inf], 0) on one cell.
CleanCell(x) == IF x.k = "nan" THEN Num(0)
                ELSE IF x.k = "inf" THEN Num(0)
                ELSE x

\* CICIDS_2017[available_features].fillna(0).replace([np.inf, -np.inf], 0)
CleanMatrix(tbl, cols, feats) ==
  [i \in 1..Len(tbl) |->
     [f \in Range(feats) |-> CleanCell(tbl[i].cells[ColumnOf(cols, f)])]]

Labels(tbl) == [i \in 1..Len(tbl) |-> tbl[i].is_attack]

\* ---------------------------------------------------------------- lines 63-66
sample_size(n) == Min(SampleCap, n)

\* np.random.choice(n, size) with its default replace=True: positions may repeat.
Choices_WithReplacement(n, size) == [1..size -> 0..(n - 1)]

\* np.random.choice(n, size, replace=False): size distinct positions of
\* 0..n-1 in any order.
Choices(n, size) ==
  {s \in [1..size -> 0..(n - 1)] : \A i, j \in 1..size : i # j => s[i] # s[j]}

\* X.iloc[idx] and y[idx]: positional selection.
Take(rows, idx) == [i \in 1..Len(idx) |-> rows[idx[i] + 1]]

\* ---------------------------------------------------------------- frames
\* One row of a per-feature table: a function from column name to value.
Row(f, col, v) == ("feature" :> f) @@ (col :> v)

\* pd.DataFrame({'feature': feats, col: vec}), vec given by feature name.
Frame(feats, col, vec) == [i \in 1..Len(feats) |-> Row(feats[i], col, vec[feats[i]])]

\* The values of feature f down the rows of a matrix, as whole numbers.
Column(M, f) == [i \in 1..Len(M) |-> M[i][f].v]

\* df.sort_values(col) with its default ascending=True.
SortValues_Ascending(df, col) ==
  LET n == Len(df)
      Ordered(p) ==
        \A i, j \in 1..n : i < j =>
          LET a == df[p[i]][col]
              b == df[p[j]][col]
          IN IF IsNaN(a) THEN IsNaN(b) /\ p[i] < p[j]
             ELSE IsNaN(b) \/ a.v <= b.v
  IN {[i \in 1..n |-> df[p[i]]] : p \in {q \in Permutations1(n) : Ordered(q)}}

\* df.sort_values(col, ascending=False): the default kind is quicksort, which
\* is not stable, so rows with equal keys may come out in any order; rows with
\* a NaN key are put last, in their original order.
SortValuesDesc(df, col) ==
  LET n == Len(df)
      Ordered(p) ==
        \A i, j \in 1..n : i < j =>
          LET a == df[p[i]][col]
              b == df[p[j]][col]
          IN IF IsNaN(a) THEN IsNaN(b) /\ p[i] < p[j]
             ELSE IsNaN(b) \/ a.v >= b.v
  IN {[i \in 1..n |-> df[p[i]]] : p \in {q \in Permutations1(n) : Ordered(q)}}

\* ---------------------------------------------------------------- lines 70-83
\* rf.feature_importances_: all zero when no tree splits, else non-negative
\* and summing to 1.
RFOutcomes(feats) ==
  {[f \in Range(feats) |-> Num(0)]} \cup
  {[f \in Range(feats) |-> IF f = g THEN Num(Scale) ELSE Num(0)] : g \in Range(feats)}

\* mutual_info_classif: non-negative estimates.
MIOutcomes(feats) ==
  {[f \in Range(feats) |-> Num(0)],
   [f \in Range(feats) |->
      Num(Scale \div (2 * (CHOOSE i \in 1..Len(feats) : feats[i] = f)))]}

\* ---------------------------------------------------------------- lines 85-93
\* Twice the average rank of xs[i] among xs (ties share the mean rank).
Rank2(xs, i) ==
  2 * Cardinality({j \in 1..Len(xs) : xs[j] < xs[i]})
    + Cardinality({j \in 1..Len(xs) : xs[j] = xs[i]}) + 1

\* scipy.stats.spearmanr(xs, ys): Pearson correlation of the ranks; when either
\* input is constant the coefficient is undefined and NaN is returned (with a
\* warning, which line 14 silences), not raised.
spearmanr(xs, ys) ==
  LET n == Len(xs)
      rx == [i \in 1..n |-> Rank2(xs, i)]
      ry == [i \in 1..n |-> Rank2(ys, i)]
      vx == n * SumSeq([i \in 1..n |-> rx[i] * rx[i]]) - SumSeq(rx) * SumSeq(rx)
      vy == n * SumSeq([i \in 1..n |-> ry[i] * ry[i]]) - SumSeq(ry) * SumSeq(ry)
      c  == n * SumSeq([i \in 1..n |-> rx[i] * ry[i]]) - SumSeq(rx) * SumSeq(ry)
      r  == Isqrt((Scale * Scale * c * c) \div (vx * vy))
  IN IF vx = 0 \/ vy = 0 THEN NaN
     ELSE Num(IF c < 0 THEN -r ELSE r)

\* spearmanr raises (ValueError) only on inputs of different lengths.
SpearmanRaises(xs, ys) == Len(xs) # Len(ys)

\* The body of the loop of lines 87-92 for one feature.
CorrelationOf(xs, ys) ==
  IF SpearmanRaises(xs, ys) THEN Num(0)
  ELSE FAbs(spearmanr(xs, ys))

\* ---------------------------------------------------------------- lines 95-112
\* X_sample[y_sample == c][feat]
ClassVals(xs, ys, c) ==
  LET idx == SelectSeq([i \in 1..Len(xs) |-> i], LAMBDA i : ys[i] = c)
  IN [k \in 1..Len(idx) |-> xs[idx[k]]]

\* n * sum(x^2) - sum(x)^2: n times the sum of squared deviations.
Dev(vals) ==
  Len(vals) * SumSeq([i \in 1..Len(vals) |-> vals[i] * vals[i]])
    - SumSeq(vals) * SumSeq(vals)

\* A population standard deviation (ddof = 0) is undefined only for an empty
\* series: the single-member class then counts with deviation 0.
StdIsNaN_Population(vals) == Len(vals) = 0

\* Series.std() is NaN for fewer than two values, and (len - 1) * NaN is NaN
\* also when len - 1 is 0.
StdIsNaN(vals) == Len(vals) <= 1

\* pooled_std, held as its square num / den; NaN as soon as one class's std
\* is NaN (NaN survives the sum, the division, also by 0, and the sqrt).
PooledStd(b, a) ==
  IF StdIsNaN(b) \/ StdIsNaN(a) THEN [k |-> "nan", num |-> 0, den |-> 1]
  ELSE [k |-> "num",
        num |-> Len(a) * Dev(b) + Len(b) * Dev(a),
        den |-> Len(b) * Len(a) * (Len(b) + Len(a) - 2)]

\* if pooled_std > 0: NaN > 0 is False.
PooledStdPositive(ps) == ps.k = "num" /\ ps.num > 0

\* The body of the loop of lines 97-110 for one feature.
CohensD(xs, ys) ==
  LET b  == ClassVals(xs, ys, 0)
      a  == ClassVals(xs, ys, 1)
      ps == PooledStd(b, a)
      d  == SumSeq(b) * Len(a) - SumSeq(a) * Len(b)
      nn == Len(b) * Len(a)
  IN IF PooledStdPositive(ps)
     THEN Num(Isqrt((Scale * Scale * d * d * ps.den) \div (nn * nn * ps.num)))
     ELSE Num(0)

\* ---------------------------------------------------------------- lines 114-129
\* Mean squared reconstruction error per standardised feature: non-negative.
PCAOutcomes(feats) ==
  {[f \in Range(feats) |-> Num(0)],
   [f \in Range(feats) |->
      Num((CHOOSE i \in 1..Len(feats) : feats[i] = f) * (Scale \div 4))]}

\* ---------------------------------------------------------------- lines 133-137
\* The tables put side by side by row position (as pd.concat(axis=1) would),
\* not matched by feature name.
Merge_ByPosition(left, right) ==
  [i \in 1..Min(Len(left), Len(right)) |-> left[i] @@ right[i]]

\* left.merge(right, on='feature'): inner join; for each left row in order,
\* one output row per right row with the same feature, in right order.
Merge(left, right) ==
  Flatten([i \in 1..Len(left) |->
             LET m == SelectSeq(right, LAMBDA r : r["feature"] = left[i]["feature"])
             IN [k \in 1..Len(m) |-> left[i] @@ m[k]]])

MergeAll(imp, mi, corr, sep, rec) ==
  Merge(Merge(Merge(Merge(imp, mi), corr), sep), rec)

\* ---------------------------------------------------------------- lines 139-144
MetricColumns ==
  << "importance", "mutual_info", "correlation", "cohens_d",
     "pca_reconstruction_error" >>

NormName(col) ==
  CASE col = "importance" -> "importance_norm"
    [] col = "mutual_info" -> "mutual_info_norm"
    [] col = "correlation" -> "correlation_norm"
    [] col = "cohens_d" -> "cohens_d_norm"
    [] col = "pca_reconstruction_error" -> "pca_reconstruction_error_norm"

\* df[col].max(): NaN entries are skipped; NaN when nothing is left.
ColumnMax(df, col) ==
  LET vals == {df[i][col].v : i \in {j \in 1..Len(df) : IsFinite(df[j][col])}}
  IN IF vals = {} THEN NaN
     ELSE Num(CHOOSE m \in vals : \A w \in vals : w <= m)

\* One pass of the loop of lines 139-144.
NormalizeColumn(df, col) ==
  LET max_val == ColumnMax(df, col)
  IN IF GtZero(max_val)
     THEN [i \in 1..Len(df) |-> df[i] @@ (NormName(col) :> FDiv(df[i][col], max_val))]
     ELSE [i \in 1..Len(df) |-> df[i] @@ (NormName(col) :> Num(0))]

RECURSIVE NormalizeAll(_, _)
NormalizeAll(df, cols) ==
  IF cols = <<>> THEN df
  ELSE NormalizeAll(NormalizeColumn(df, Head(cols)), Tail(cols))

\* ---------------------------------------------------------------- lines 146-156
\* Weights, in hundredths.
W_IMPORTANCE == 30
W_MUTUAL_INFO == 25
W_CORRELATION == 20
W_COHENS_D == 25
W_USEFULNESS == 70
W_PCA == 30

UsefulnessScore(r) ==
  Weighted(<< W_IMPORTANCE, W_MUTUAL_INFO, W_CORRELATION, W_COHENS_D >>,
           << r["importance_norm"], r["mutual_info_norm"],
              r["correlation_norm"], r["cohens_d_norm"] >>)

CombinedScore(r) ==
  Weighted(<< W_USEFULNESS, W_PCA >>,
           << r["usefulness_score"], r["pca_reconstruction_error_norm"] >>)

AddScores(df) ==
  LET u == [i \in 1..Len(df) |-> df[i] @@ ("usefulness_score" :> UsefulnessScore(df[i]))]
  IN [i \in 1..Len(u) |-> u[i] @@ ("combined_score" :> CombinedScore(u[i]))]

\* ---------------------------------------------------------------- lines 158-166
\* The loop without its early return: the last matching group wins.
get_feature_group_Last(groups, feature) ==
  LET hits == {g \in 1..Len(groups) : feature \in Range(groups[g].features)}
  IN IF hits = {} THEN "Unknown"
     ELSE groups[CHOOSE g \in hits : \A h \in hits : g >= h].name

get_feature_group(groups, feature) ==
  LET hits == {g \in 1..Len(groups) : feature \in Range(groups[g].features)}
  IN IF hits = {} THEN "Unknown"
     ELSE groups[CHOOSE g \in hits : \A h \in hits : g <= h].name

AddFeatureGroup(df, groups) ==
  [i \in 1..Len(df) |->
     df[i] @@ ("feature_group" :> get_feature_group(groups, df[i]["feature"]))]

\* ---------------------------------------------------------------- actions
Init ==
  /\ pc = "loaded"
  /\ catalog = [source |-> "script", groups |-> <<>>]
  /\ columns \in Headers
  /\ table \in Tables
  /\ available_features = <<>>
  /\ X = <<>> /\ y = <<>>
  /\ sample_idx = <<>> /\ X_sample = <<>> /\ y_sample = <<>>
  /\ feature_importance = <<>> /\ mutual_info = <<>> /\ correlation_df = <<>>
  /\ separability_df = <<>> /\ reconstruction_df = <<>>
  /\ metrics_combined = <<>>

SelectFeatures ==
  /\ pc = "loaded"
  /\ available_features' = AvailableFeatures(CatalogGroups, columns)
  /\ pc' = "selected"
  /\ UNCHANGED <<catalog, columns, table, X, y, sample_idx, X_sample, y_sample,
                 feature_importance, mutual_info, correlation_df,
                 separability_df, reconstruction_df, metrics_combined>>

Clean ==
  /\ pc = "selected"
  /\ X' = CleanMatrix(table, columns, available_features)
  /\ y' = Labels(table)
  /\ pc' = "cleaned"
  /\ UNCHANGED <<catalog, columns, table, available_features, sample_idx,
                 X_sample, y_sample, feature_importance, mutual_info,
                 correlation_df, separability_df, reconstruction_df,
                 metrics_combined>>

Sample ==
  /\ pc = "cleaned"
  /\ \E idx \in Choices(Len(X), sample_size(Len(X))) :
       /\ sample_idx' = idx
       /\ X_sample' = Take(X, idx)
       /\ y_sample' = Take(y, idx)
  /\ pc' = "sampled"
  /\ UNCHANGED <<catalog, columns, table, available_features, X, y,
                 feature_importance, mutual_info, correlation_df,
                 separability_df, reconstruction_df, metrics_combined>>

FitImportance ==
  /\ pc = "sampled"
  /\ \E imp \in RFOutcomes(available_features) :
       feature_importance' \in
         SortValuesDesc(Frame(available_features, "importance", imp), "importance")
  /\ pc' = "importance"
  /\ UNCHANGED <<catalog, columns, table, available_features, X, y, sample_idx,
                 X_sample, y_sample, mutual_info, correlation_df,
                 separability_df, reconstruction_df, metrics_combined>>

MutualInformation ==
  /\ pc = "importance"
  /\ \E mi \in MIOutcomes(available_features) :
       mutual_info' \in
         SortValuesDesc(Frame(available_features, "mutual_info", mi), "mutual_info")
  /\ pc' = "mutual_info"
  /\ UNCHANGED <<catalog, columns, table, available_features, X, y, sample_idx,
                 X_sample, y_sample, feature_importance, correlation_df,
                 separability_df, reconstruction_df, metrics_combined>>

Correlations ==
  /\ pc = "mutual_info"
  /\ LET corr == [f \in Range(available_features) |->
                    CorrelationOf(Column(X_sample, f), y_sample)]
     IN correlation_df' \in
          SortValuesDesc(Frame(available_features, "correlation", corr), "correlation")
  /\ pc' = "correlation"
  /\ UNCHANGED <<catalog, columns, table, available_features, X, y, sample_idx,
                 X_sample, y_sample, feature_importance, mutual_info,
                 separability_df, reconstruction_df, metrics_combined>>

Separability ==
  /\ pc = "correlation"
  /\ LET sep == [f \in Range(available_features) |->
                   CohensD(Column(X_sample, f), y_sample)]
     IN separability_df' \in
          SortValuesDesc(Frame(available_features, "cohens_d", sep), "cohens_d")
  /\ pc' = "separability"
  /\ UNCHANGED <<catalog, columns, table, available_features, X, y, sample_idx,
                 X_sample, y_sample, feature_importance, mutual_info,
                 correlation_df, reconstruction_df, metrics_combined>>

PCAReconstruction ==
  /\ pc = "separability"
  /\ \E mse \in PCAOutcomes(available_features) :
       reconstruction_df' =
         Frame(available_features, "pca_reconstruction_error", mse)
  /\ pc' = "pca"
  /\ UNCHANGED <<catalog, columns, table, available_features, X, y, sample_idx,
                 X_sample, y_sample, feature_importance, mutual_info,
                 correlation_df, separability_df, metrics_combined>>

MergeMetrics ==
  /\ pc = "pca"
  /\ metrics_combined' = MergeAll(feature_importance, mutual_info, correlation_df,
                                  separability_df, reconstruction_df)
  /\ pc' = "merged"
  /\ UNCHANGED <<catalog, columns, table, available_features, X, y, sample_idx,
                 X_sample, y_sample, feature_importance, mutual_info,
                 correlation_df, separability_df, reconstruction_df>>

Normalize ==
  /\ pc = "merged"
  /\ metrics_combined' = NormalizeAll(metrics_combined, MetricColumns)
  /\ pc' = "normalized"
  /\ UNCHANGED <<catalog, columns, table, available_features, X, y, sample_idx,
                 X_sample, y_sample, feature_importance, mutual_info,
                 correlation_df, separability_df, reconstruction_df>>

Score ==
  /\ pc = "normalized"
  /\ metrics_combined' = AddScores(metrics_combined)
  /\ pc' = "scored"
  /\ UNCHANGED <<catalog, columns, table, available_features, X, y, sample_idx,
                 X_sample, y_sample, feature_importance, mutual_info,
                 correlation_df, separability_df, reconstruction_df>>

AttachFeatureGroup ==
  /\ pc = "scored"
  /\ metrics_combined' = AddFeatureGroup(metrics_combined, CatalogGroups)
  /\ pc' = "grouped"
  /\ UNCHANGED <<catalog, columns, table, available_features, X, y, sample_idx,
                 X_sample, y_sample, feature_importance, mutual_info,
                 correlation_df, separability_df, reconstruction_df>>

SortByCombined ==
  /\ pc = "grouped"
  /\ metrics_combined' \in SortValuesDesc(metrics_combined, "combined_score")
  /\ pc' = "sorted"
  /\ UNCHANGED <<catalog, columns, table, available_features, X, y, sample_idx,
                 X_sample, y_sample, feature_importance, mutual_info,
                 correlation_df, separability_df, reconstruction_df>>

Next ==
  \/ SelectFeatures \/ Clean \/ Sample
  \/ FitImportance \/ MutualInformation \/ Correlations \/ Separability
  \/ PCAReconstruction
  \/ MergeMetrics \/ Normalize \/ Score \/ AttachFeatureGroup \/ SortByCombined

Spec == Init /\ [][Next]_vars

\* ---------------------------------------------------------------- separability alone
\* The separability step applied to samples drawn directly: one feature, up to
\* MaxSepRows rows, so that classes of 0, 1 and 2 or more members all occur.
SepFeature == "Flow Duration"

SepSamples ==
  UNION {[1..n -> [{SepFeature} -> {Num(v) : v \in 0..MaxSepVal}]] : n \in 1..MaxSepRows}

InitSep ==
  /\ pc = "correlation"
  /\ catalog = [source |-> "script", groups |-> <<>>]
  /\ columns = << SepFeature >>
  /\ table = <<>>
  /\ available_features = << SepFeature >>
  /\ X = <<>> /\ y = <<>>
  /\ sample_idx = <<>>
  /\ X_sample \in SepSamples
  /\ y_sample \in [1..Len(X_sample) -> {0, 1}]
  /\ feature_importance = <<>> /\ mutual_info = <<>> /\ correlation_df = <<>>
  /\ separability_df = <<>> /\ reconstruction_df = <<>>
  /\ metrics_combined = <<>>

NextSep == Separability

SpecSep == InitSep /\ [][NextSep]_vars

\* ---------------------------------------------------------------- group lookup alone
\* get_feature_group applied to catalogs drawn directly: up to MaxGroups groups
\* in definition order, a feature possibly listed in several groups or in none.
GroupNames == << "Group A", "Group B", "Group C", "Group D" >>

LookupFeatures == {"f1", "f2", "f3"}

FeatureLists ==
  {<<>>} \cup {<<f>> : f \in LookupFeatures}
         \cup {<<f, g>> : f, g \in LookupFeatures}

Catalogs ==
  UNION {{[i \in 1..n |-> [name |-> GroupNames[i], features |-> fl[i]]] :
            fl \in [1..n -> FeatureLists]} : n \in 1..MaxGroups}

InitGroup ==
  /\ pc = "scored"
  /\ catalog \in {[source |-> "given", groups |-> c] : c \in Catalogs}
  /\ columns = <<>>
  /\ table = <<>>
  /\ available_features = <<>>
  /\ X = <<>> /\ y = <<>>
  /\ sample_idx = <<>> /\ X_sample = <<>> /\ y_sample = <<>>
  /\ feature_importance = <<>> /\ mutual_info = <<>> /\ correlation_df = <<>>
  /\ separability_df = <<>> /\ reconstruction_df = <<>>
  /\ \E f \in LookupFeatures : metrics_combined = << [c \in {"feature"} |-> f] >>

NextGroup == AttachFeatureGroup

SpecGroup == InitGroup /\ [][NextGroup]_vars

\* ================================================================ properties
Stages ==
  << "loaded", "selected", "cleaned", "sampled", "importance", "mutual_info",
     "correlation", "separability", "pca", "merged", "normalized", "scored",
     "grouped", "sorted" >>

StageNo(p) == CHOOSE i \in 1..Len(Stages) : Stages[i] = p

\* The script has completed the step that leaves pc at stage p.
Reached(p) == StageNo(pc) >= StageNo(p)

IsConstant(vals) == \A i, j \in 1..Len(vals) : vals[i] = vals[j]

\* The position of feature f's row in a per-feature table.
PositionOf(df, f) == CHOOSE i \in 1..Len(df) : df[i]["feature"] = f

\* ---------------------------------------------------------------- C1
\* C1: once the correlation step has run, every feature whose values are
\* constant within the sample has the stored correlation exactly 0 (never an
\* undefined value).
C1_ConstantFeatureCorrelationIsZero ==
  Reached("correlation") =>
    \A i \in 1..Len(correlation_df) :
      IsConstant(Column(X_sample, correlation_df[i]["feature"]))
        => correlation_df[i]["correlation"] = Num(0)

\* ---------------------------------------------------------------- C2
Mem(xs, ys, c) == {i \in 1..Len(xs) : ys[i] = c}

\* The sum of xs[i] over the positions i in I.
SumOver(xs, I) == SumSeq([i \in 1..Len(xs) |-> IF i \in I THEN xs[i] ELSE 0])

\* n * (sum of squared deviations from the mean) of the values xs[i], i in I.
NDevOver(xs, I) ==
  Cardinality(I) * SumOver([i \in 1..Len(xs) |-> xs[i] * xs[i]], I)
    - SumOver(xs, I) * SumOver(xs, I)

C2_ReachedNonDegenerate ==
  /\ pc = "separability"
  /\ \E r \in 1..Len(separability_df) :
       /\ Cardinality(Mem(X_sample, y_sample, 0)) >= 2
       /\ Cardinality(Mem(X_sample, y_sample, 1)) >= 2
       /\ separability_df[r]["cohens_d"].v > Scale

\* ---------------------------------------------------------------- C3
InUnit(x) == x.k = "num" /\ 0 <= x.v /\ x.v <= Scale

\* C3: after normalisation, for each of the five metrics every _norm value lies
\* in [0,1]; the normalised column is all 0 exactly when the raw column's
\* maximum is 0, and otherwise each value is raw / max.
C3_NormInUnitInterval ==
  Reached("normalized") =>
    \A c \in 1..Len(MetricColumns) :
      LET col == MetricColumns[c]
          n   == Len(metrics_combined)
          raw == [i \in 1..n |-> metrics_combined[i][col]]
          nrm == [i \in 1..n |-> metrics_combined[i][NormName(col)]]
          maxIsZero == /\ \A i \in 1..n : raw[i].k = "num" /\ raw[i].v <= 0
                       /\ \E i \in 1..n : raw[i] = Num(0)
      IN /\ \A i \in 1..n : InUnit(nrm[i])
         /\ (\A i \in 1..n : nrm[i] = Num(0)) <=> maxIsZero
         /\ ~maxIsZero =>
              \E m \in 1..n :
                /\ \A i \in 1..n : raw[i].v <= raw[m].v
                /\ \A i \in 1..n : nrm[i] = Num((raw[i].v * Scale) \div raw[m].v)

\* ---------------------------------------------------------------- C4
\* C4: for every feature of the merged table, usefulness_score and
\* combined_score both lie in [0,1].
C4_ScoresInUnitInterval ==
  Reached("scored") =>
    \A i \in 1..Len(metrics_combined) :
      /\ InUnit(metrics_combined[i]["usefulness_score"])
      /\ InUnit(metrics_combined[i]["combined_score"])

\* ---------------------------------------------------------------- C5
\* C5: for a table of N rows the sampler yields exactly min(cap, N) rows at
\* pairwise distinct row positions, and X_sample row i and y_sample[i] come
\* from the same row of the table.
C5_SampleSizeDistinctAligned ==
  Reached("sampled") =>
    LET N == Len(table)
        S == IF N < SampleCap THEN N ELSE SampleCap
    IN /\ Len(sample_idx) = S /\ Len(X_sample) = S /\ Len(y_sample) = S
       /\ \A i \in 1..S : sample_idx[i] \in 0..(N - 1)
       /\ \A i, j \in 1..S : i # j => sample_idx[i] # sample_idx[j]
       /\ \A i \in 1..S :
            LET row == table[sample_idx[i] + 1]
            IN /\ y_sample[i] = row.is_attack
               /\ \A c \in 1..Len(columns) :
                    columns[c] \in Range(available_features) =>
                      LET cell == row.cells[c]
                      IN X_sample[i][columns[c]] =
                           IF cell.k = "num" THEN cell ELSE Num(0)

\* A table larger than the cap, sampled out of table order.
C5_Witness ==
  /\ pc = "sampled"
  /\ Len(table) > SampleCap
  /\ Len(sample_idx) = SampleCap
  /\ sample_idx[1] > sample_idx[2]
  /\ y_sample[1] # y_sample[2]

\* ---------------------------------------------------------------- C6
PerFeatureTables ==
  << <<feature_importance, "importance">>, <<mutual_info, "mutual_info">>,
     <<correlation_df, "correlation">>, <<separability_df, "cohens_d">>,
     <<reconstruction_df, "pca_reconstruction_error">> >>

\* C6: the merged table holds exactly one row for every feature of
\* available_features, none missing and none duplicated, carrying that
\* feature's value from each of the five tables, whatever the order in which
\* each table was sorted.
C6_MergeKeepsEveryFeature ==
  Reached("merged") =>
    /\ Len(metrics_combined) = Len(available_features)
    /\ \A f \in Range(available_features) :
         Cardinality({i \in 1..Len(metrics_combined) :
                        metrics_combined[i]["feature"] = f}) = 1
    /\ \A i \in 1..Len(metrics_combined) :
         /\ metrics_combined[i]["feature"] \in Range(available_features)
         /\ \A t \in 1..Len(PerFeatureTables) :
              LET df  == PerFeatureTables[t][1]
                  col == PerFeatureTables[t][2]
              IN \E k \in 1..Len(df) :
                   /\ df[k]["feature"] = metrics_combined[i]["feature"]
                   /\ df[k][col] = metrics_combined[i][col]

\* Two features merged from tables sorted in different orders, with different
\* values in the table whose order differs.
C6_Witness ==
  /\ pc = "merged"
  /\ Len(metrics_combined) = 2
  /\ feature_importance[1]["feature"] # reconstruction_df[1]["feature"]
  /\ feature_importance[1]["importance"] # feature_importance[2]["importance"]
  /\ reconstruction_df[1]["pca_reconstruction_error"]
       # reconstruction_df[2]["pca_reconstruction_error"]

\* ---------------------------------------------------------------- C7
GroupsHolding(f) ==
  {g \in 1..Len(CatalogGroups) : f \in Range(CatalogGroups[g].features)}

\* C7: the group attached to a feature is the first group, in catalog order,
\* whose list contains the feature, and "Unknown" when no group contains it.
C7_FirstGroupOrUnknown ==
  pc = "grouped" =>
    \A i \in 1..Len(metrics_combined) :
      LET f == metrics_combined[i]["feature"]
          g == metrics_combined[i]["feature_group"]
      IN IF GroupsHolding(f) = {} THEN g = "Unknown"
         ELSE \E h \in GroupsHolding(f) :
                /\ CatalogGroups[h].name = g
                /\ \A e \in GroupsHolding(f) : h <= e

\* A feature listed in two groups, neither the first of the catalog.
C7_Witness ==
  /\ pc = "grouped"
  /\ \E i \in 1..Len(metrics_combined) :
       LET f == metrics_combined[i]["feature"]
       IN /\ Cardinality(GroupsHolding(f)) >= 2
          /\ 1 \notin GroupsHolding(f)
          /\ metrics_combined[i]["feature_group"] = CatalogGroups[2].name

\* ---------------------------------------------------------------- C9
CombinedAt(i) == metrics_combined[i]["combined_score"]

\* No later row has a strictly greater combined_score.
NonIncreasing ==
  \A i, j \in 1..Len(metrics_combined) :
    i < j => ~(CombinedAt(i).k = "num" /\ CombinedAt(j).k = "num" /\ CombinedAt(i).v < CombinedAt(j).v)

\* Rows with equal combined_score keep the order of the merged table, which is
\* the order of the importance table.
TiesKeepMergeOrder ==
  \A i, j \in 1..Len(metrics_combined) :
    (i < j /\ CombinedAt(i).k = "num" /\ CombinedAt(j).k = "num" /\ CombinedAt(i).v = CombinedAt(j).v)
      => PositionOf(feature_importance, metrics_combined[i]["feature"])
           < PositionOf(feature_importance, metrics_combined[j]["feature"])

\* C9 as stated: the report table is ordered by non-increasing combined_score
\* and the sort is stable.
C9_SortedAndStable ==
  pc = "sorted" => NonIncreasing /\ TiesKeepMergeOrder

\* C9 as amended: the report table holds the rows of the merged table ordered
\* by non-increasing combined_score, rows with an undefined combined_score
\* last; rows with equal combined_score may come in either order.
C9_SortedDescendingNaNLast ==
  pc = "sorted" =>
    /\ Len(metrics_combined) = Len(feature_importance)
    /\ \A k \in 1..Len(feature_importance) :
         \E i \in 1..Len(metrics_combined) :
           metrics_combined[i]["feature"] = feature_importance[k]["feature"]
    /\ \A i, j \in 1..Len(metrics_combined) :
         i < j =>
           /\ (CombinedAt(i).k = "num" /\ CombinedAt(j).k = "num") => CombinedAt(i).v >= CombinedAt(j).v
           /\ IsNaN(CombinedAt(i)) => IsNaN(CombinedAt(j))

\* Two rows of different, defined combined_score, the greater first although
\* the merged table held it second.
C9_Witness ==
  /\ pc = "sorted"
  /\ Len(metrics_combined) = 2
  /\ CombinedAt(1).k = "num" /\ CombinedAt(2).k = "num"
  /\ CombinedAt(1).v > CombinedAt(2).v
  /\ feature_importance[2]["feature"] = metrics_combined[1]["feature"]

\* Two rows of equal combined_score in the reverse of their merged order.
C9_ReachedUnstableTie ==
  /\ pc = "sorted"
  /\ Len(metrics_combined) = 2
  /\ CombinedAt(1).k = "num" /\ CombinedAt(1) = CombinedAt(2)
  /\ feature_importance[2]["feature"] = metrics_combined[1]["feature"]

\* ---------------------------------------------------------------- C10
\* Every entry of the matrix M is finite and is the table's entry at the same
\* row (given by rowAt) and column, or 0 where that entry is NaN or infinite.
CleanedFrom(M, rowAt) ==
  \A i \in 1..Len(M) :
    \A f \in Range(available_features) :
      LET cell == table[rowAt[i]].cells[ColumnOf(columns, f)]
      IN /\ M[i][f].k = "num"
         /\ M[i][f] = (IF cell = NaN \/ cell = PosInf \/ cell = NegInf
                       THEN Num(0) ELSE cell)

\* The tables of the two estimators computed by the script itself hold what
\* the sample X_sample, y_sample gives.
ComputedFromSample ==
  /\ pc = "correlation" =>
       \A r \in 1..Len(correlation_df) :
         correlation_df[r]["correlation"] =
           CorrelationOf(Column(X_sample, correlation_df[r]["feature"]), y_sample)
  /\ pc = "separability" =>
       \A r \in 1..Len(separability_df) :
         separability_df[r]["cohens_d"] =
           CohensD(Column(X_sample, separability_df[r]["feature"]), y_sample)

\* What the cleaning step and the sampling step leave behind them.
C10_CleanState ==
  /\ pc = "cleaned" =>
       /\ Len(X) = Len(table)
       /\ CleanedFrom(X, [i \in 1..Len(X) |-> i])
  /\ pc = "sampled" =>
       /\ Len(X_sample) = Len(sample_idx)
       /\ CleanedFrom(X_sample, [i \in 1..Len(sample_idx) |-> sample_idx[i] + 1])
  /\ ComputedFromSample

\* Once drawn, the sample is never changed or drawn again, and neither is the
\* cleaned matrix once built.
C10_SampleFrozen ==
  /\ Reached("cleaned") => X' = X /\ y' = y
  /\ Reached("sampled") =>
       /\ X_sample' = X_sample
       /\ y_sample' = y_sample
       /\ sample_idx' = sample_idx

\* C10: every NaN, +inf and -inf entry of the feature matrix is replaced by 0
\* and every other entry is unchanged, so X_sample holds only finite values;
\* and from the first estimator to the last the sample X_sample, y_sample stays
\* the one drawn, the estimators' tables being computed from it.
C10_CleanedSampleSharedByEstimators ==
  [](C10_CleanState) /\ [][C10_SampleFrozen]_vars

\* All five estimators have run on a sample that held a NaN, an infinite and an
\* ordinary non-zero entry in the table.
C10_Witness ==
  /\ pc = "pca"
  /\ \E i, j, k \in 1..Len(sample_idx) :
       \E f, g, h \in Range(available_features) :
         /\ table[sample_idx[i] + 1].cells[ColumnOf(columns, f)] = NaN
         /\ X_sample[i][f] = Num(0)
         /\ table[sample_idx[j] + 1].cells[ColumnOf(columns, g)].k = "inf"
         /\ X_sample[j][g] = Num(0)
         /\ table[sample_idx[k] + 1].cells[ColumnOf(columns, h)] = Num(-2)
         /\ X_sample[k][h] = Num(-2)

====
